---- MODULE Spec2Model ----
(***************************************************************************)
(* Model of the TradingView paper-trading bot: the alert handler           *)
(* execute_paper_trade (src/src/api/trade.rs), the Coinbase feed task and  *)
(* the tick consumer (src/src/api/websocket.rs), close_paper_trade, the    *)
(* startup preload of main (src/src/server.rs) and the MongoDB collections *)
(* ActiveTrades / ClosedTrades.                                            *)
(*                                                                         *)
(* Numbers.  Prices are whole quote-currency units, quantities are in      *)
(* hundredths of a base unit (the code rounds them to 2 decimal places),   *)
(* timestamps are whole hours.  Every price that occurs is chosen so that  *)
(* the f64 expressions of the code have exact values on this grid.         *)
(***************************************************************************)
EXTENDS Integers, Sequences, FiniteSets, TLC

----------------------------------------------------------------------------
(* Bounds of the model.                                                    *)

\* total number of alert requests the HTTP route receives in a run
MaxAlerts == 2
\* total number of WebSocket messages the feed task reads in a run
MaxMsgs == 2
\* number of ticker updates the mpsc channel holds in the model
\* (the code creates it with capacity 100, websocket.rs:74)
ChanBound == 1
\* the reading of the wall clock Utc::now(), in hours, during the run; the
\* trades of earlier runs were opened at hour 0
Now == 9
\* the last hour of the timestamps the calculators are called with
MaxHour == 49

----------------------------------------------------------------------------
(* Program constants (src/src/constants/trade.rs).                         *)

MAINTENANCE_MARGIN == 1
DEFAULT_NOTIONAL_VALUE == 1000
\* DEFAULT_LEVERAGE is TradeLeverage::Three
DEFAULT_LEVERAGE == "3x"
\* page-size limit of the fetch_* queries; its definition is not in the
\* sources at hand, only its uses (trade.rs:29, trade.rs:91)
MAX_PER_PAGE == 2
\* page and per_page are u32 (trade.rs:26-27); the model computes with
\* unsigned integers of this modulus in place of 2^32
UintModulus == 16

\* TradeLeverage -> f64 (the serde names of models/trade.rs:147-158)
LeverageValue(l) ==
    CASE l = "1x" -> 1 [] l = "2x" -> 2 [] l = "3x" -> 3
      [] l = "5x" -> 5 [] l = "10x" -> 10

\* the accepted symbols; no code tests a pair against them
ACCEPTED_SYMBOLS == {"BTCUSDT", "ETHUSDT", "BNBUSDT", "SOLUSDT"}

\* percentages; no code refers to them
DEFAULT_TAKE_PROFIT_PERCENTAGE == 5
DEFAULT_STOP_LOSS_PERCENTAGE == 2

\* the value of TRADINGVIEW_SECRET read at trade.rs:142
ExpectedSecret == "s3cret"

----------------------------------------------------------------------------
(* Option<f64>.                                                            *)

NoneF == [some |-> FALSE, val |-> 0]
SomeF(v) == [some |-> TRUE, val |-> v]

----------------------------------------------------------------------------
(* Pure helpers.                                                           *)

\* impl From<TradeSignal> for TradeDirection
DirectionOf(signal) == IF signal = "buy" THEN "long" ELSE "short"

\* f64::round of the quotient a / b of two positive integers
\* (half away from zero)
RoundDiv(a, b) == (2 * a + b) \div (2 * b)

\* the value that stands for f64::INFINITY, the quotient of a positive
\* number and 0.0, above every finite quantity
Infinity == 1000000000

\* (DEFAULT_NOTIONAL_VALUE / price * 100.0).round() / 100.0, in hundredths;
\* the division of f64 is total: infinite for the price 0, negative for a
\* negative price
Quantity(price) ==
    IF price = 0
    THEN Infinity
    ELSE IF price > 0
         THEN RoundDiv(DEFAULT_NOTIONAL_VALUE * 100, price)
         ELSE -RoundDiv(DEFAULT_NOTIONAL_VALUE * 100, -price)

\* calc_liquidation_price:
\*   long : entry * (1 - 1/lev + (MAINTENANCE_MARGIN/100)/lev)
\*   short: entry * (1 + 1/lev - (MAINTENANCE_MARGIN/100)/lev)
\* written over the common denominator 100 * lev
calc_liquidation_price(entry_price, leverage, direction) ==
    IF direction = "long"
    THEN (entry_price * (100 * leverage - 100 + MAINTENANCE_MARGIN))
             \div (100 * leverage)
    ELSE (entry_price * (100 * leverage + 100 - MAINTENANCE_MARGIN))
             \div (100 * leverage)

\* str::to_uppercase / eq_ignore_ascii_case on the pair strings that occur
ToUpper(s) ==
    CASE s = "btc-usd" -> "BTC-USD"
      [] s = "eth-usd" -> "ETH-USD"
      [] OTHER -> s
eq_ignore_ascii_case(a, b) == ToUpper(a) = ToUpper(b)

----------------------------------------------------------------------------
(* Fee / PnL calculators (src/src/api/trade_helpers.rs).  Money is in units*)
(* of 1/20000 of a quote unit, in which the fees below are whole numbers   *)
(* for the quantities that occur (multiples of 1.00).                      *)

FUNDING_FEE_HOURS == <<0, 8, 16>>

\* calc_final_execution_fees charging the fee of the opening only
calc_final_execution_fees_OpeningOnly(quantity, entry_price) ==
    (quantity * entry_price) \div 10

\* calc_final_execution_fees: 2 * (0.05 / 100 * quantity * entry_price)
calc_final_execution_fees(quantity, entry_price) ==
    (quantity * entry_price) \div 5

\* the value that stands for the panic of trade_helpers.rs:119
Panic == -1

\* NaiveDate::and_hms_opt(hour, 0, 0): None for an hour that is no hour of
\* a day
and_hms_opt(date, hour) ==
    IF hour < 24 THEN SomeF(date * 24 + hour) ELSE NoneF

\* get_next_funding_time taking a funding hour equal to the hour of the
\* timestamp
get_next_funding_time_Inclusive(timestamp) ==
    LET date == timestamp \div 24
        hour == timestamp % 24
        later == {i \in 1..Len(FUNDING_FEE_HOURS) :
                    /\ hour <= FUNDING_FEE_HOURS[i]
                    /\ and_hms_opt(date, FUNDING_FEE_HOURS[i]).some}
    IN  IF later # {}
        THEN and_hms_opt(date,
                 FUNDING_FEE_HOURS[CHOOSE i \in later : \A j \in later : i <= j]).val
        ELSE IF and_hms_opt(date + 1, FUNDING_FEE_HOURS[1]).some
             THEN and_hms_opt(date + 1, FUNDING_FEE_HOURS[1]).val
             ELSE Panic

\* get_next_funding_time: the first funding hour of the day that is above
\* the hour of the timestamp and is an hour of a day, else the first funding
\* hour of the next day, else the panic
get_next_funding_time(timestamp) ==
    LET date == timestamp \div 24
        hour == timestamp % 24
        later == {i \in 1..Len(FUNDING_FEE_HOURS) :
                    /\ hour < FUNDING_FEE_HOURS[i]
                    /\ and_hms_opt(date, FUNDING_FEE_HOURS[i]).some}
    IN  IF later # {}
        THEN and_hms_opt(date,
                 FUNDING_FEE_HOURS[CHOOSE i \in later : \A j \in later : i <= j]).val
        ELSE IF and_hms_opt(date + 1, FUNDING_FEE_HOURS[1]).some
             THEN and_hms_opt(date + 1, FUNDING_FEE_HOURS[1]).val
             ELSE Panic

\* the while loop advancing by four hours
RECURSIVE FundingLoop_HalfStep(_, _, _, _)
FundingLoop_HalfStep(current_funding_time, close_timestamp, qsum, final_funding_fees) ==
    IF current_funding_time <= close_timestamp
    THEN FundingLoop_HalfStep(current_funding_time + 4, close_timestamp, qsum,
                              final_funding_fees + qsum \div 100)
    ELSE final_funding_fees

\* the while loop of calc_final_funding_fees (trade_helpers.rs:88-94);
\* qsum is quantity * entry + quantity * exit, of which the code charges
\* (qsum / 2) * (0.01 / 100) at every funding time up to the close
RECURSIVE FundingLoop(_, _, _, _)
FundingLoop(current_funding_time, close_timestamp, qsum, final_funding_fees) ==
    IF current_funding_time <= close_timestamp
    THEN FundingLoop(current_funding_time + 8, close_timestamp, qsum,
                     final_funding_fees + qsum \div 100)
    ELSE final_funding_fees

\* calc_final_funding_fees charging a negative duration like a positive one
calc_final_funding_fees_AbsDuration(open_timestamp, close_timestamp, qsum) ==
    IF open_timestamp = close_timestamp
    THEN 0
    ELSE IF open_timestamp < close_timestamp
         THEN FundingLoop(get_next_funding_time(open_timestamp),
                          close_timestamp, qsum, 0)
         ELSE FundingLoop(get_next_funding_time(close_timestamp),
                          open_timestamp, qsum, 0)

calc_final_funding_fees(open_timestamp, close_timestamp, qsum) ==
    IF open_timestamp >= close_timestamp
    THEN 0
    ELSE FundingLoop(get_next_funding_time(open_timestamp), close_timestamp,
                     qsum, 0)

\* calc_pnl
calc_pnl(entry_price, exit_price, quantity, execution_fees, funding_fees, direction) ==
    LET raw_pnl == IF direction = "long"
                   THEN (exit_price - entry_price) * quantity * 200
                   ELSE (entry_price - exit_price) * quantity * 200
    IN  raw_pnl - execution_fees - funding_fees

\* calc_roe with the margin taken as entry_price * quantity * leverage
calc_roe_MarginTimesLeverage(pnl, entry_price, quantity, leverage) ==
    (pnl * 5) \div (entry_price * quantity * leverage)

\* calc_roe: (pnl / (entry_price * quantity / leverage)) * 100, here in
\* tenths of a percent, truncated
calc_roe(pnl, entry_price, quantity, leverage) ==
    (pnl * leverage * 5) \div (entry_price * quantity)

----------------------------------------------------------------------------
(* Records.                                                                *)

\* the ActiveTrade literal of trade.rs:238-251 and trade.rs:313-326
NewActiveTrade(id, alert, ts) ==
    [ id                |-> id,
      alert_name        |-> alert.name,
      pair              |-> alert.pair,
      direction         |-> DirectionOf(alert.signal),
      kind              |-> "paper",
      open_timestamp    |-> ts,
      quantity          |-> Quantity(alert.price),
      entry_price       |-> alert.price,
      leverage          |-> DEFAULT_LEVERAGE,
      liquidation_price |-> calc_liquidation_price(alert.price,
                                LeverageValue(DEFAULT_LEVERAGE),
                                DirectionOf(alert.signal)),
      take_profit       |-> alert.take_profit,
      stop_loss         |-> alert.stop_loss ]

\* the ClosedTrade literal with the liquidation price computed anew at the
\* close, from the closing price
NewClosedTrade_RecomputesLiquidation(existing_trade, alert, ts) ==
    LET execution_fees == calc_final_execution_fees(existing_trade.quantity,
                                                    existing_trade.entry_price)
        funding_fees == calc_final_funding_fees(existing_trade.open_timestamp, ts,
                            existing_trade.quantity * existing_trade.entry_price
                              + existing_trade.quantity * alert.price)
        pnl == calc_pnl(existing_trade.entry_price, alert.price,
                        existing_trade.quantity, execution_fees, funding_fees,
                        existing_trade.direction)
        roe == calc_roe(pnl, existing_trade.entry_price,
                        existing_trade.quantity,
                        LeverageValue(existing_trade.leverage))
    IN  [ id                |-> existing_trade.id,
          alert_name        |-> alert.name,
          pair              |-> existing_trade.pair,
          direction         |-> existing_trade.direction,
          kind              |-> existing_trade.kind,
          quantity          |-> existing_trade.quantity,
          entry_price       |-> existing_trade.entry_price,
          exit_price        |-> alert.price,
          leverage          |-> existing_trade.leverage,
          liquidation_price |-> calc_liquidation_price(alert.price,
                                    LeverageValue(existing_trade.leverage),
                                    existing_trade.direction),
          open_timestamp    |-> existing_trade.open_timestamp,
          close_timestamp   |-> ts,
          pnl               |-> pnl,
          roe               |-> roe,
          execution_fees    |-> execution_fees,
          funding_fees      |-> funding_fees ]

\* the ClosedTrade literal of trade.rs:179-226
NewClosedTrade(existing_trade, alert, ts) ==
    LET execution_fees == calc_final_execution_fees(existing_trade.quantity,
                                                    existing_trade.entry_price)
        funding_fees == calc_final_funding_fees(existing_trade.open_timestamp, ts,
                            existing_trade.quantity * existing_trade.entry_price
                              + existing_trade.quantity * alert.price)
        pnl == calc_pnl(existing_trade.entry_price, alert.price,
                        existing_trade.quantity, execution_fees, funding_fees,
                        existing_trade.direction)
        roe == calc_roe(pnl, existing_trade.entry_price,
                        existing_trade.quantity,
                        LeverageValue(existing_trade.leverage))
    IN  [ id                |-> existing_trade.id,
          alert_name        |-> alert.name,
          pair              |-> existing_trade.pair,
          direction         |-> existing_trade.direction,
          kind              |-> existing_trade.kind,
          quantity          |-> existing_trade.quantity,
          entry_price       |-> existing_trade.entry_price,
          exit_price        |-> alert.price,
          leverage          |-> existing_trade.leverage,
          liquidation_price |-> existing_trade.liquidation_price,
          open_timestamp    |-> existing_trade.open_timestamp,
          close_timestamp   |-> ts,
          pnl               |-> pnl,
          roe               |-> roe,
          execution_fees    |-> execution_fees,
          funding_fees      |-> funding_fees ]

Ids(trades) == {t.id : t \in trades}

\* is_trigger_hit(&trade, price) is called at websocket.rs:105 and imported
\* at websocket.rs:11; its body is not in the sources at hand.  It is
\* modelled from the trigger rule of the specification (section 4.4), with
\* the precedence liquidation, stop-loss, take-profit.
TriggerReason(trade, price) ==
    IF trade.direction = "long"
    THEN IF price <= trade.liquidation_price THEN "liquidation"
         ELSE IF trade.stop_loss.some /\ price <= trade.stop_loss.val
              THEN "stop_loss"
         ELSE IF trade.take_profit.some /\ price >= trade.take_profit.val
              THEN "take_profit"
         ELSE "none"
    ELSE IF price >= trade.liquidation_price THEN "liquidation"
         ELSE IF trade.stop_loss.some /\ price >= trade.stop_loss.val
              THEN "stop_loss"
         ELSE IF trade.take_profit.some /\ price <= trade.take_profit.val
              THEN "take_profit"
         ELSE "none"

is_trigger_hit(trade, price) == TriggerReason(trade, price) # "none"

----------------------------------------------------------------------------
(* Inputs.                                                                 *)

\* the concurrently running request tasks of the alert route; the tasks are
\* interchangeable, a request takes h2 only while h1 is busy
Handlers == {"h1", "h2"}

AlertNames == {"n1"}
AlertPairs == {"BTC-USD"}
AlertPrices == {100}

\* the take-profit / stop-loss an alert carries, when it carries them
AlertTakeProfit(signal) == IF signal = "buy" THEN 240 ELSE 180
AlertStopLoss(signal) == IF signal = "buy" THEN 180 ELSE 240

MkAlert(name, signal, pair, price, tp, sl, secret, wellformed) ==
    [ wellformed |-> wellformed, name |-> name, signal |-> signal,
      pair |-> pair, price |-> price, take_profit |-> tp, stop_loss |-> sl,
      secret |-> secret ]

\* alerts that deserialize and carry the expected secret
GoodAlerts ==
    { MkAlert(n, s, p, pr, tpsl[1], tpsl[2], ExpectedSecret, TRUE) :
        n \in AlertNames, s \in {"buy", "sell"}, p \in AlertPairs,
        pr \in AlertPrices,
        tpsl \in { <<NoneF, NoneF>>,
                   <<SomeF(AlertTakeProfit("buy")), SomeF(AlertStopLoss("buy"))>> } }

\* a payload that is not a TradingViewAlert, and one with a wrong secret
BadPayload == MkAlert("", "buy", "", 0, NoneF, NoneF, "", FALSE)
BadSecretAlert ==
    MkAlert("n1", "buy", "BTC-USD", 100, NoneF, NoneF, "wrong", TRUE)

Payloads == GoodAlerts \cup {BadPayload, BadSecretAlert}

NoAlert == BadPayload

\* trades persisted by an earlier run of the process: each was written by
\* execute_paper_trade for an alert on BTC-USD at price 200 at hour 0
SeedTrade(id, name, s, tp, sl) ==
    NewActiveTrade(id,
        MkAlert(name, s, "BTC-USD", 200, tp, sl, ExpectedSecret, TRUE), 0)

\* for the alert name n1: take-profit and stop-loss both unset or both set
Seeds ==
    { SeedTrade(1, "n1", s, NoneF, NoneF) : s \in {"buy", "sell"} }
      \cup { SeedTrade(1, "n1", s, SomeF(AlertTakeProfit(s)),
                       SomeF(AlertStopLoss(s))) : s \in {"buy", "sell"} }

\* for the alert name n1: each of take-profit and stop-loss set or unset
SeedsOf(s) ==
    { SeedTrade(1, "n1", s, tp, sl) :
        tp \in {NoneF, SomeF(AlertTakeProfit(s))},
        sl \in {NoneF, SomeF(AlertStopLoss(s))} }

\* a second position on the same pair, for the alert name n2
OtherSeeds ==
    { SeedTrade(2, "n2", "buy", SomeF(AlertTakeProfit("buy")),
                SomeF(AlertStopLoss("buy"))),
      SeedTrade(2, "n2", "sell", NoneF, NoneF) }

\* positions whose pair is written in another casing or without the
\* separator, and a position on another instrument (pair: alert.pair as
\* received, trade.rs:315)
PairSeed(id, name, pair) ==
    [SeedTrade(id, name, "buy", NoneF, NoneF) EXCEPT !.pair = pair]
SymbolSeeds ==
    { PairSeed(1, "n1", "btc-usd"), PairSeed(2, "n2", "BTCUSD"),
      PairSeed(3, "n3", "ETH-USD") }

\* a third position on the same pair, for the alert name n3
ThirdSeed == SeedTrade(3, "n3", "buy", NoneF, NoneF)

AllSeeds == SeedsOf("buy") \cup SeedsOf("sell") \cup OtherSeeds

\* the stores of at most one position per idempotency key
SeedStores ==
    { S \in SUBSET AllSeeds :
        \A t1, t2 \in S : t1.alert_name = t2.alert_name => t1 = t2 }

\* the stores of up to three positions: more than one page of MAX_PER_PAGE
LargeSeedStores == SeedStores \cup { S \cup {ThirdSeed} : S \in SeedStores }

NoTrade ==
    [ id |-> 0, alert_name |-> "", pair |-> "", direction |-> "long",
      kind |-> "paper", open_timestamp |-> 0, quantity |-> 0,
      entry_price |-> 0, leverage |-> DEFAULT_LEVERAGE,
      liquidation_price |-> 0, take_profit |-> NoneF, stop_loss |-> NoneF ]
NoClosed ==
    [ id |-> 0, alert_name |-> "", pair |-> "", direction |-> "long",
      kind |-> "paper", quantity |-> 0, entry_price |-> 0, exit_price |-> 0,
      leverage |-> DEFAULT_LEVERAGE, liquidation_price |-> 0,
      open_timestamp |-> 0, close_timestamp |-> 0, pnl |-> 0, roe |-> 0,
      execution_fees |-> 0, funding_fees |-> 0 ]

\* ticker updates of the Coinbase feed; price is Option<String>, a present
\* price is the decimal string of the number val
TickPrices == {67, 134, 180, 220, 240, 266}
\* the product ids of the subscribe message (websocket.rs:28)
SubscribedProducts == {"BTC-USD", "ETH-USD"}

Tickers ==
    { [product_id |-> "BTC-USD", price |-> SomeF(p)] : p \in TickPrices }
      \cup { [product_id |-> "BTC-USD", price |-> NoneF],
             [product_id |-> "ETH-USD", price |-> SomeF(67)] }

\* arguments of the calculators of trade_helpers.rs.  A call on two
\* timestamps and the sum quantity * entry + quantity * exit of a position:
TimeArgs ==
    { [kind |-> "time", open_timestamp |-> o, close_timestamp |-> c, qsum |-> n] :
        o \in 0..MaxHour, c \in 0..MaxHour, n \in {150000, 200000} }
\* a close as execute_paper_trade computes it (trade.rs:179-197), for a
\* position of the default notional value
CloseArgs ==
    { [kind |-> "close", entry_price |-> e, exit_price |-> x,
       quantity |-> Quantity(e), direction |-> d,
       open_timestamp |-> o, close_timestamp |-> c] :
        e \in {100, 200}, x \in {100, 200}, d \in {"long", "short"},
        o \in {0, Now}, c \in {0, Now} }
\* a call of calc_roe; the pnl values are whole quote units
RoeArgs ==
    { [kind |-> "roe", pnl |-> v, entry_price |-> e, quantity |-> Quantity(e),
       leverage |-> l] :
        v \in {-40000, -20000, 0, 20000, 60000}, e \in {100, 200},
        l \in {"1x", "2x", "3x", "5x", "10x"} }
\* a call of fetch_active_trades or fetch_closed_trades (filter None)
PageArgs ==
    { [kind |-> "page", page |-> pg, per_page |-> pp] :
        pg \in 0..(UintModulus - 1), pp \in {0, 1, 2, 3, 1000} }
\* the trades of ClosedTrades at such a call: closes of trades of earlier
\* runs by an alert at price 100
ClosedSeeds ==
    { NewClosedTrade(t, MkAlert(t.alert_name, "sell", "BTC-USD", 100, NoneF,
                                NoneF, ExpectedSecret, TRUE), Now) :
        t \in { SeedTrade(5, "n1", "buy", NoneF, NoneF),
                 SeedTrade(6, "n2", "buy", NoneF, NoneF),
                 SeedTrade(7, "n3", "buy", NoneF, NoneF) } }
CalcArgs == TimeArgs \cup CloseArgs \cup RoeArgs
NoArgs == [kind |-> ""]
NoResult == [fn |-> "", val |-> 0]

NoResponse == [task |-> "", status |-> 0, message |-> ""]
Response(status, message) == [status |-> status, message |-> message]

----------------------------------------------------------------------------
(* State.                                                                  *)

VARIABLES
    mainPc,          \* main: "preload" before the preload, then "serving"
    active,          \* the documents of the ActiveTrades collection
    closed,          \* the documents of the ClosedTrades collection
    active_trades,   \* AppState.active_trades: the in-memory map, as the
                     \* set of its values (the keys are their ids)
    nextId,          \* the next ObjectId::new()
    nAlerts,         \* alert requests received so far
    pc,              \* per request task: the await it is suspended at
    alert,           \* per request task: the deserialized alert
    existing_trade,  \* per request task: the trade the lookup returned
    closed_trade,    \* per request task: the ClosedTrade being inserted
    new_trade,       \* per request task: the ActiveTrade being inserted
    resp,            \* the response most recently returned by a request
                     \* task, with the task that returned it
    chan,            \* the mpsc channel of ticker updates
    feedPc,          \* the feed task: "reading" or "ended"
    nMsgs,           \* WebSocket messages read so far
    cpc,             \* the consumer task: "recv", "check" or "stopped"
    product_id,      \* consumer: the upper-cased product id of its tick
    price,           \* consumer: the parsed price of its tick
    trades_to_check, \* consumer: the snapshot still to be evaluated
    closeLog,        \* history: the close events, in order
    lock,            \* the holder of the active_trades mutex, or "free"
    args,            \* calculators: the arguments of the call
    result           \* calculators: the function called and its value

storeVars == <<active, closed>>
handlerVars == <<nAlerts, pc, alert, existing_trade, closed_trade, new_trade, resp>>
feedVars == <<chan, feedPc, nMsgs>>
consumerVars == <<cpc, product_id, price, trades_to_check>>
calcVars == <<args, result>>
procVars == <<mainPc, active, closed, active_trades, nextId, nAlerts, pc,
              alert, existing_trade, closed_trade, new_trade, resp, chan,
              feedPc, nMsgs, cpc, product_id, price, trades_to_check,
              closeLog, lock>>
vars == <<mainPc, active, closed, active_trades, nextId, nAlerts, pc,
          alert, existing_trade, closed_trade, new_trade, resp, chan, feedPc,
          nMsgs, cpc, product_id, price, trades_to_check, closeLog, lock,
          args, result>>

\* the state after AppState::new (api/state.rs:8-13), before the preload,
\* but for the content of ActiveTrades
InitTaskVars ==
    /\ mainPc = "preload"
    /\ active_trades = {}
    /\ nextId = 4
    /\ nAlerts = 0
    /\ pc = [h \in Handlers |-> "idle"]
    /\ alert = [h \in Handlers |-> NoAlert]
    /\ existing_trade = [h \in Handlers |-> NoTrade]
    /\ closed_trade = [h \in Handlers |-> NoClosed]
    /\ new_trade = [h \in Handlers |-> NoTrade]
    /\ resp = NoResponse
    /\ chan = <<>>
    /\ feedPc = "reading"
    /\ nMsgs = 0
    /\ cpc = "recv"
    /\ product_id = ""
    /\ price = 0
    /\ trades_to_check = {}
    /\ closeLog = <<>>
    /\ lock = "free"

InitProcVars ==
    /\ closed = {}
    /\ InitTaskVars

InitProcess ==
    /\ InitProcVars
    /\ args = NoArgs
    /\ result = NoResult

\* the process starts on a store that holds no trade or one trade of an
\* earlier run
Init ==
    /\ active \in {{}} \cup {{t} : t \in Seeds}
    /\ InitProcess

\* the process starts on a store of up to two trades of earlier runs
InitFeed ==
    /\ active \in SeedStores
    /\ InitProcess

\* the process starts on a store of up to two trades of earlier runs whose
\* pairs are written in several conventions
InitSymbols ==
    /\ active \in {S \in SUBSET (SymbolSeeds \cup {ThirdSeed}) : Cardinality(S) <= 2}
    /\ InitProcess

\* the process starts on a store that holds no trade or one trade of an
\* earlier run that another alert name opened
InitPairs ==
    /\ active \in {{}} \cup {{t} : t \in OtherSeeds}
    /\ InitProcess

\* the process starts on a store of up to three trades of earlier runs
InitStartup ==
    /\ active \in LargeSeedStores
    /\ InitProcess

----------------------------------------------------------------------------
(* The store (MongoDBState, trade.rs:15-126).                              *)

Min(a, b) == IF a <= b THEN a ELSE b

\* trade.rs:29-30 and trade.rs:91-92: per_page.min(MAX_PER_PAGE) and
\* skip = (page - 1) * per_page in u32.  When the subtraction or the product
\* leaves the range of the type, a build with overflow checks panics and a
\* build without them wraps: both outcomes
PageSkip(page, per_page) ==
    LET limit == Min(per_page, MAX_PER_PAGE)
    IN  IF page = 0 \/ (page - 1) * limit >= UintModulus
        THEN { [ panic |-> TRUE, wrapped |-> TRUE, skip |-> 0 ],
               [ panic |-> FALSE, wrapped |-> TRUE,
                 skip |-> (((page - 1) % UintModulus) * limit) % UintModulus ] }
        ELSE { [ panic |-> FALSE, wrapped |-> FALSE, skip |-> (page - 1) * limit ] }

\* find(filter = None).skip(skip).limit(per_page) on a collection: the
\* possible result vectors, as sets; find() without a sort returns the
\* documents in the store's own order, so any per_page of those left after
\* the skip
FetchPage(collection, skip, per_page) ==
    LET limit == Min(per_page, MAX_PER_PAGE)
        n == Min(limit,
                 IF Cardinality(collection) > skip
                 THEN Cardinality(collection) - skip ELSE 0)
    IN  {S \in SUBSET collection : Cardinality(S) = n}

\* fetch_active_trades(filter = None, page, per_page): the possible result
\* vectors of the calls that do not panic
fetch_active_trades(page, per_page) ==
    UNION { FetchPage(active, o.skip, per_page) :
              o \in {x \in PageSkip(page, per_page) : ~x.panic} }

\* fetch_closed_trades(filter = None, page, per_page), likewise
fetch_closed_trades(page, per_page) ==
    UNION { FetchPage(closed, o.skip, per_page) :
              o \in {x \in PageSkip(page, per_page) : ~x.panic} }

\* fetch_active_trade_by_apk: the documents find_one may return
fetch_active_trade_by_apk(alert_name, pair, kind) ==
    {t \in active : t.alert_name = alert_name /\ t.pair = pair /\ t.kind = kind}

\* insert_one succeeds only if the store call succeeds and no document of
\* the collection has the same _id
InsertOk(collection, doc, ok) == ok /\ doc.id \notin Ids(collection)

\* delete_one(doc! {"_id": id}): the collection afterwards
DeleteById(collection, id) == {t \in collection : t.id # id}

----------------------------------------------------------------------------
(* main (server.rs:37-48): preload, then spawn the listener and serve.     *)

\* ok is the outcome of the fetch; on Err the `if let Ok` is skipped.  The
\* section under the lock (server.rs:39-43) is part of the step: the lock
\* is free before and after it
Preload(ok) ==
    /\ mainPc = "preload"
    /\ mainPc' = "serving"
    /\ IF ok
       THEN \E existing_trades \in fetch_active_trades(1, 1000) :
                active_trades' = active_trades \cup existing_trades
       ELSE active_trades' = active_trades
    /\ UNCHANGED <<storeVars, nextId, handlerVars, feedVars, consumerVars,
                   closeLog, lock>>
    /\ UNCHANGED calcVars

----------------------------------------------------------------------------
(* execute_paper_trade (trade.rs:134-370), one action per await.           *)

\* the handler returns: its locals are dropped
Return(h, response) ==
    /\ pc' = [pc EXCEPT ![h] = "idle"]
    /\ resp' = [task |-> h, status |-> response.status,
                 message |-> response.message]
    /\ alert' = [alert EXCEPT ![h] = NoAlert]
    /\ existing_trade' = [existing_trade EXCEPT ![h] = NoTrade]
    /\ closed_trade' = [closed_trade EXCEPT ![h] = NoClosed]
    /\ new_trade' = [new_trade EXCEPT ![h] = NoTrade]

\* AlertReceive without the comparison of the secrets
AlertReceive_NoSecretCheck(h, payload) ==
    /\ mainPc = "serving"
    /\ pc[h] = "idle"
    /\ h = "h2" => pc["h1"] # "idle"
    /\ nAlerts < MaxAlerts
    /\ nAlerts' = nAlerts + 1
    /\ IF ~payload.wellformed
       THEN Return(h, Response(422, "Failed to deserialize payload"))
       ELSE /\ pc' = [pc EXCEPT ![h] = "lookup"]
            /\ alert' = [alert EXCEPT ![h] = payload]
            /\ UNCHANGED <<existing_trade, closed_trade, new_trade, resp>>
    /\ UNCHANGED <<mainPc, storeVars, active_trades, lock, nextId, feedVars,
                   consumerVars, closeLog>>
    /\ UNCHANGED calcVars

\* trade.rs:138-162: deserialize, check the secret, issue the lookup
AlertReceive(h, payload) ==
    /\ mainPc = "serving"
    /\ pc[h] = "idle"
    /\ h = "h2" => pc["h1"] # "idle"
    /\ nAlerts < MaxAlerts
    /\ nAlerts' = nAlerts + 1
    /\ IF ~payload.wellformed
       THEN Return(h, Response(422, "Failed to deserialize payload"))
       ELSE IF payload.secret # ExpectedSecret
       THEN Return(h, Response(401, "Invalid secret provided"))
       ELSE /\ pc' = [pc EXCEPT ![h] = "lookup"]
            /\ alert' = [alert EXCEPT ![h] = payload]
            /\ UNCHANGED <<existing_trade, closed_trade, new_trade, resp>>
    /\ UNCHANGED <<mainPc, storeVars, active_trades, lock, nextId, feedVars,
                   consumerVars, closeLog>>
    /\ UNCHANGED calcVars

\* trade.rs:162 with Err(_) or Ok(None): the else branch of trade.rs:310-328
\* builds the new trade and issues its insert
LookupMiss(h) ==
    /\ pc[h] = "lookup"
    /\ pc' = [pc EXCEPT ![h] = "open_insert"]
    /\ new_trade' = [new_trade EXCEPT ![h] = NewActiveTrade(nextId, alert[h], Now)]
    /\ nextId' = nextId + 1
    /\ UNCHANGED <<mainPc, storeVars, active_trades, lock, nAlerts, alert,
                   existing_trade, closed_trade, resp, feedVars, consumerVars,
                   closeLog>>
    /\ UNCHANGED calcVars

\* trade.rs:162-226 with Ok(Some(found)): ignore a same-direction alert,
\* else build the ClosedTrade and issue its insert
LookupHit(h, found) ==
    /\ pc[h] = "lookup"
    /\ IF found.direction = DirectionOf(alert[h].signal)
       THEN Return(h, Response(200, "Ignoring alert"))
       ELSE /\ pc' = [pc EXCEPT ![h] = "close_insert"]
            /\ existing_trade' = [existing_trade EXCEPT ![h] = found]
            /\ closed_trade' = [closed_trade EXCEPT ![h] =
                                   NewClosedTrade(found, alert[h], Now)]
            /\ UNCHANGED <<alert, new_trade, resp>>
    /\ UNCHANGED <<mainPc, storeVars, active_trades, lock, nextId, nAlerts,
                   feedVars, consumerVars, closeLog>>
    /\ UNCHANGED calcVars

\* trade.rs:162: the lookup completes; ok is the outcome of the store call
Lookup(h, ok) ==
    LET found == fetch_active_trade_by_apk(alert[h].name, alert[h].pair, "paper")
    IN  IF ok /\ found # {}
        THEN \E t \in found : LookupHit(h, t)
        ELSE LookupMiss(h)

\* trade.rs:230: add_closed_trade completes
CloseInsert(h, ok) ==
    /\ pc[h] = "close_insert"
    /\ IF InsertOk(closed, closed_trade[h], ok)
       THEN /\ closed' = closed \cup {closed_trade[h]}
            /\ closeLog' = Append(closeLog,
                               [id |-> closed_trade[h].id, by |-> "alert",
                                stale |-> FALSE])
            /\ pc' = [pc EXCEPT ![h] = "active_delete"]
            /\ UNCHANGED <<alert, existing_trade, closed_trade, new_trade, resp>>
       ELSE /\ Return(h, Response(500, "Failed to add closed trade"))
            /\ UNCHANGED <<closed, closeLog>>
    /\ UNCHANGED <<mainPc, active, active_trades, lock, nextId, nAlerts,
                   feedVars, consumerVars>>
    /\ UNCHANGED calcVars

\* trade.rs:233-254: delete_active_trade completes; on Ok the new trade is
\* built and its insert issued
ActiveDelete(h, ok) ==
    /\ pc[h] = "active_delete"
    /\ IF ok
       THEN /\ active' = DeleteById(active, existing_trade[h].id)
            /\ new_trade' = [new_trade EXCEPT ![h] =
                                NewActiveTrade(nextId, alert[h], Now)]
            /\ nextId' = nextId + 1
            /\ pc' = [pc EXCEPT ![h] = "reopen_insert"]
            /\ UNCHANGED <<alert, existing_trade, closed_trade, resp>>
       ELSE /\ Return(h, Response(500, "Failed to delete existing trade"))
            /\ UNCHANGED <<active, nextId>>
    /\ UNCHANGED <<mainPc, closed, active_trades, lock, nAlerts, feedVars,
                   consumerVars, closeLog>>
    /\ UNCHANGED calcVars

\* OpenInsert with the Err arm answering like the Ok arm
OpenInsert_SwallowsError(h, ok) ==
    /\ pc[h] \in {"open_insert", "reopen_insert"}
    /\ IF InsertOk(active, new_trade[h], ok)
       THEN active' = active \cup {new_trade[h]}
       ELSE UNCHANGED active
    /\ Return(h, IF pc[h] = "reopen_insert"
                 THEN Response(200, "Closed existing trade, opened new trade")
                 ELSE Response(200, "Opened new trade"))
    /\ UNCHANGED <<mainPc, closed, active_trades, lock, nextId, nAlerts,
                   feedVars, consumerVars, closeLog>>
    /\ UNCHANGED calcVars

\* trade.rs:254-279 and trade.rs:328-353: add_active_trade completes
OpenInsert(h, ok) ==
    /\ pc[h] \in {"open_insert", "reopen_insert"}
    /\ IF InsertOk(active, new_trade[h], ok)
       THEN /\ active' = active \cup {new_trade[h]}
            /\ Return(h, IF pc[h] = "reopen_insert"
                         THEN Response(200, "Closed existing trade, opened new trade")
                         ELSE Response(200, "Opened new trade"))
       ELSE /\ Return(h, Response(500, "Failed to open new trade"))
            /\ UNCHANGED active
    /\ UNCHANGED <<mainPc, closed, active_trades, lock, nextId, nAlerts,
                   feedVars, consumerVars, closeLog>>
    /\ UNCHANGED calcVars

----------------------------------------------------------------------------
(* The feed task: connect_and_subscribe_to_coinbase (websocket.rs:15-67).  *)

\* FeedTicker with try_send in place of send(..).await: a ticker update
\* that finds the channel full is dropped
FeedTicker_DropsWhenFull(update) ==
    /\ mainPc = "serving"
    /\ feedPc = "reading"
    /\ nMsgs < MaxMsgs
    /\ chan' = IF Len(chan) < ChanBound THEN Append(chan, update) ELSE chan
    /\ nMsgs' = nMsgs + 1
    /\ UNCHANGED <<mainPc, storeVars, active_trades, lock, nextId, handlerVars,
                   feedPc, consumerVars, closeLog>>
    /\ UNCHANGED calcVars

\* websocket.rs:40-51: a text message that parses as a ticker update is
\* sent to the channel; send waits while the channel is full
FeedTicker(update) ==
    /\ mainPc = "serving"
    /\ feedPc = "reading"
    /\ nMsgs < MaxMsgs
    /\ Len(chan) < ChanBound
    /\ chan' = Append(chan, update)
    /\ nMsgs' = nMsgs + 1
    /\ UNCHANGED <<mainPc, storeVars, active_trades, lock, nextId, handlerVars,
                   feedPc, consumerVars, closeLog>>
    /\ UNCHANGED calcVars

\* websocket.rs:44-58: a text message that does not parse, a message whose
\* type is not "ticker", or a non-text message is passed over
FeedSkip ==
    /\ mainPc = "serving"
    /\ feedPc = "reading"
    /\ nMsgs < MaxMsgs
    /\ nMsgs' = nMsgs + 1
    /\ UNCHANGED <<mainPc, storeVars, active_trades, lock, nextId, handlerVars,
                   chan, feedPc, consumerVars, closeLog>>
    /\ UNCHANGED calcVars

\* websocket.rs:17-19, 59-66: the connect fails, the stream ends or yields
\* an error; the task ends and drops its sender
FeedEnd ==
    /\ mainPc = "serving"
    /\ feedPc = "reading"
    /\ feedPc' = "ended"
    /\ UNCHANGED <<mainPc, storeVars, active_trades, lock, nextId, handlerVars,
                   chan, nMsgs, consumerVars, closeLog>>
    /\ UNCHANGED calcVars

----------------------------------------------------------------------------
(* The consumer task of start_price_listener (websocket.rs:84-112) and     *)
(* close_paper_trade (trade.rs:379-399).  The runtime of #[tokio::main] is *)
(* multi-threaded: the consumer runs in parallel with the request tasks,   *)
(* and its sections under the active_trades lock are its atomic steps.     *)

\* ticker_update.price.unwrap_or("0.0").parse::<f64>().unwrap_or(0.0)
ParsePrice(p) == IF p.some THEN p.val ELSE 0

\* websocket.rs:85-101: receive a ticker update and snapshot, under the
\* lock, the trades of the map whose pair matches its product id
ConsumerRecv ==
    /\ mainPc = "serving"
    /\ cpc = "recv"
    /\ chan # <<>>
    /\ LET ticker_update == Head(chan)
           pid == ToUpper(ticker_update.product_id)
           snapshot == {t \in active_trades : eq_ignore_ascii_case(t.pair, pid)}
       IN  /\ chan' = Tail(chan)
           /\ trades_to_check' = snapshot
           /\ IF snapshot = {}
              THEN cpc' = "recv" /\ product_id' = "" /\ price' = 0
              ELSE /\ cpc' = "check"
                   /\ product_id' = pid
                   /\ price' = ParsePrice(ticker_update.price)
    /\ UNCHANGED <<mainPc, storeVars, active_trades, lock, nextId, handlerVars,
                   feedPc, nMsgs, closeLog>>
    /\ UNCHANGED calcVars

\* close_paper_trade without the map.remove of trade.rs:387
close_paper_trade_NoRemove(map, trade_id, exit_price) == map

\* close_paper_trade(app_state, trade_id, exit_price): map.remove(trade_id)
\* under the lock; no store call follows.  The map afterwards:
close_paper_trade(map, trade_id, exit_price) ==
    {t \in map : t.id # trade_id}

\* ConsumerCheck without the is_trigger_hit test of websocket.rs:105: every
\* trade of the snapshot is closed
ConsumerCheck_Untested(trade) ==
    /\ cpc = "check"
    /\ trade \in trades_to_check
    /\ active_trades' = close_paper_trade(active_trades, trade.id, price)
    /\ closeLog' = Append(closeLog,
                       [id |-> trade.id, by |-> "tick",
                        stale |-> trade.id \notin Ids(active)])
    /\ trades_to_check' = trades_to_check \ {trade}
    /\ IF trades_to_check' = {}
       THEN cpc' = "recv" /\ product_id' = "" /\ price' = 0
       ELSE UNCHANGED <<cpc, product_id, price>>
    /\ UNCHANGED <<mainPc, storeVars, nextId, handlerVars, feedVars, lock>>
    /\ UNCHANGED calcVars

\* ConsumerCheck with a `break` after the first close: the trades of the
\* snapshot not yet visited are dropped
ConsumerCheck_StopsAtFirstClose(trade) ==
    /\ cpc = "check"
    /\ trade \in trades_to_check
    /\ IF is_trigger_hit(trade, price)
       THEN /\ active_trades' = close_paper_trade(active_trades, trade.id, price)
            /\ closeLog' = Append(closeLog,
                               [id |-> trade.id, by |-> "tick",
                                stale |-> trade.id \notin Ids(active)])
            /\ trades_to_check' = {}
       ELSE /\ UNCHANGED <<active_trades, closeLog>>
            /\ trades_to_check' = trades_to_check \ {trade}
    /\ IF trades_to_check' = {}
       THEN cpc' = "recv" /\ product_id' = "" /\ price' = 0
       ELSE UNCHANGED <<cpc, product_id, price>>
    /\ UNCHANGED <<mainPc, storeVars, nextId, handlerVars, feedVars, lock>>
    /\ UNCHANGED calcVars

\* websocket.rs:104-110: one iteration of the loop over the snapshot
ConsumerCheck(trade) ==
    /\ cpc = "check"
    /\ trade \in trades_to_check
    /\ IF is_trigger_hit(trade, price)
       THEN /\ active_trades' = close_paper_trade(active_trades, trade.id, price)
            /\ closeLog' = Append(closeLog,
                               [id |-> trade.id, by |-> "tick",
                                stale |-> trade.id \notin Ids(active)])
       ELSE UNCHANGED <<active_trades, closeLog>>
    /\ trades_to_check' = trades_to_check \ {trade}
    /\ IF trades_to_check' = {}
       THEN cpc' = "recv" /\ product_id' = "" /\ price' = 0
       ELSE UNCHANGED <<cpc, product_id, price>>
    /\ UNCHANGED <<mainPc, storeVars, nextId, handlerVars, feedVars, lock>>
    /\ UNCHANGED calcVars

\* ConsumerStop as if the receiver were closed with the sender: the queued
\* ticker updates are dropped
ConsumerStop_DropsQueued ==
    /\ cpc = "recv"
    /\ feedPc = "ended"
    /\ cpc' = "stopped"
    /\ UNCHANGED <<mainPc, storeVars, active_trades, lock, nextId, handlerVars,
                   feedVars, product_id, price, trades_to_check, closeLog>>
    /\ UNCHANGED calcVars

\* websocket.rs:85: recv() yields None once the feed task has dropped the
\* only sender and the channel is drained; the consumer task ends
ConsumerStop ==
    /\ cpc = "recv"
    /\ chan = <<>>
    /\ feedPc = "ended"
    /\ cpc' = "stopped"
    /\ UNCHANGED <<mainPc, storeVars, active_trades, lock, nextId, handlerVars,
                   feedVars, product_id, price, trades_to_check, closeLog>>
    /\ UNCHANGED calcVars

----------------------------------------------------------------------------
(* The same sections of main, the consumer and close_paper_trade with the  *)
(* active_trades mutex as a state: a step takes the lock and does the work *)
(* of the section, a second step drops the guard at the end of its block.  *)
(* Preload, ConsumerRecv and ConsumerCheck above are these pairs of steps   *)
(* taken as one.                                                           *)

\* server.rs:38-42: the fetch completes; on Ok main takes the lock and
\* inserts the fetched trades
PreloadLock(ok) ==
    /\ mainPc = "preload"
    /\ IF ok
       THEN /\ lock = "free"
            /\ lock' = "main"
            /\ mainPc' = "preload_locked"
            /\ \E existing_trades \in fetch_active_trades(1, 1000) :
                   active_trades' = active_trades \cup existing_trades
       ELSE /\ mainPc' = "serving"
            /\ UNCHANGED <<active_trades, lock>>
    /\ UNCHANGED <<storeVars, nextId, handlerVars, feedVars, consumerVars,
                   closeLog>>
    /\ UNCHANGED calcVars

\* server.rs:43: the guard is dropped at the end of the `if let` block
PreloadUnlock ==
    /\ mainPc = "preload_locked"
    /\ lock = "main"
    /\ lock' = "free"
    /\ mainPc' = "serving"
    /\ UNCHANGED <<storeVars, active_trades, nextId, handlerVars, feedVars,
                   consumerVars, closeLog>>
    /\ UNCHANGED calcVars

\* websocket.rs:85-100: recv() yields a ticker update; the consumer parses
\* it, takes the lock and collects the trades of the tick's product id
SnapshotLock ==
    /\ mainPc = "serving"
    /\ cpc = "recv"
    /\ chan # <<>>
    /\ lock = "free"
    /\ lock' = "consumer"
    /\ cpc' = "snapshot_locked"
    /\ LET ticker_update == Head(chan)
           pid == ToUpper(ticker_update.product_id)
       IN  /\ chan' = Tail(chan)
           /\ product_id' = pid
           /\ price' = ParsePrice(ticker_update.price)
           /\ trades_to_check' =
                  {t \in active_trades : eq_ignore_ascii_case(t.pair, pid)}
    /\ UNCHANGED <<mainPc, storeVars, active_trades, nextId, handlerVars,
                   feedPc, nMsgs, closeLog>>
    /\ UNCHANGED calcVars

\* websocket.rs:101: the guard is dropped at the end of the block; with an
\* empty snapshot the loop body is over and the consumer is back at recv()
SnapshotUnlock ==
    /\ cpc = "snapshot_locked"
    /\ lock = "consumer"
    /\ lock' = "free"
    /\ IF trades_to_check = {}
       THEN cpc' = "recv" /\ product_id' = "" /\ price' = 0
       ELSE cpc' = "check" /\ UNCHANGED <<product_id, price>>
    /\ UNCHANGED <<mainPc, storeVars, active_trades, nextId, handlerVars,
                   feedVars, trades_to_check, closeLog>>
    /\ UNCHANGED calcVars

\* websocket.rs:104-108 and trade.rs:385-387: one iteration of the loop; on
\* a hit close_paper_trade takes the lock and removes the trade
CloseLock(trade) ==
    /\ cpc = "check"
    /\ trade \in trades_to_check
    /\ trades_to_check' = trades_to_check \ {trade}
    /\ IF is_trigger_hit(trade, price)
       THEN /\ lock = "free"
            /\ lock' = "consumer"
            /\ cpc' = "close_locked"
            /\ active_trades' = close_paper_trade(active_trades, trade.id, price)
            /\ closeLog' = Append(closeLog,
                               [id |-> trade.id, by |-> "tick",
                                stale |-> trade.id \notin Ids(active)])
            /\ UNCHANGED <<product_id, price>>
       ELSE /\ UNCHANGED <<active_trades, closeLog, lock>>
            /\ IF trades_to_check' = {}
               THEN cpc' = "recv" /\ product_id' = "" /\ price' = 0
               ELSE UNCHANGED <<cpc, product_id, price>>
    /\ UNCHANGED <<mainPc, storeVars, nextId, handlerVars, feedVars>>
    /\ UNCHANGED calcVars

\* CloseUnlock with the guard still alive when close_paper_trade returns
CloseUnlock_KeepsGuard ==
    /\ cpc = "close_locked"
    /\ lock = "consumer"
    /\ lock' = lock
    /\ IF trades_to_check = {}
       THEN cpc' = "recv" /\ product_id' = "" /\ price' = 0
       ELSE cpc' = "check" /\ UNCHANGED <<product_id, price>>
    /\ UNCHANGED <<mainPc, storeVars, active_trades, nextId, handlerVars,
                   feedVars, trades_to_check, closeLog>>
    /\ UNCHANGED calcVars

\* trade.rs:388-399: the guard is dropped at the end of the block, before
\* close_paper_trade prints and returns
CloseUnlock ==
    /\ cpc = "close_locked"
    /\ lock = "consumer"
    /\ lock' = "free"
    /\ IF trades_to_check = {}
       THEN cpc' = "recv" /\ product_id' = "" /\ price' = 0
       ELSE cpc' = "check" /\ UNCHANGED <<product_id, price>>
    /\ UNCHANGED <<mainPc, storeVars, active_trades, nextId, handlerVars,
                   feedVars, trades_to_check, closeLog>>
    /\ UNCHANGED calcVars

----------------------------------------------------------------------------
(* Calls of the calculators (trade_helpers.rs) on given arguments.         *)

\* the process has not started; the calculators are called on args
InitCalc ==
    /\ active = {}
    /\ InitProcVars
    /\ args \in CalcArgs
    /\ result = NoResult

CalcNextFundingTime ==
    /\ args.kind = "time"
    /\ result = NoResult
    /\ result' = [fn |-> "get_next_funding_time",
                  val |-> get_next_funding_time(args.open_timestamp)]
    /\ UNCHANGED <<procVars, args>>

CalcFundingFees ==
    /\ args.kind = "time"
    /\ result = NoResult
    /\ result' = [fn |-> "calc_final_funding_fees",
                  val |-> calc_final_funding_fees(args.open_timestamp,
                              args.close_timestamp, args.qsum)]
    /\ UNCHANGED <<procVars, args>>

\* trade.rs:179-197: execution fees, funding fees and pnl of a close
CalcClosePnl ==
    /\ args.kind = "close"
    /\ result = NoResult
    /\ LET execution_fees == calc_final_execution_fees(args.quantity,
                                                       args.entry_price)
           funding_fees == calc_final_funding_fees(args.open_timestamp,
                               args.close_timestamp,
                               args.quantity * args.entry_price
                                 + args.quantity * args.exit_price)
       IN  result' = [fn |-> "calc_pnl",
                      val |-> calc_pnl(args.entry_price, args.exit_price,
                                       args.quantity, execution_fees,
                                       funding_fees, args.direction)]
    /\ UNCHANGED <<procVars, args>>

CalcRoe ==
    /\ args.kind = "roe"
    /\ result = NoResult
    /\ result' = [fn |-> "calc_roe",
                  val |-> calc_roe(args.pnl, args.entry_price, args.quantity,
                                   LeverageValue(args.leverage))]
    /\ UNCHANGED <<procVars, args>>

\* the two collections hold up to three trades each; the process has not
\* started
InitPages ==
    /\ active \in SUBSET { SeedTrade(1, "n1", "buy", NoneF, NoneF),
                            SeedTrade(2, "n2", "sell", NoneF, NoneF),
                            ThirdSeed }
    /\ closed \in SUBSET ClosedSeeds
    /\ InitTaskVars
    /\ args \in PageArgs
    /\ result = NoResult

\* trade.rs:22-48: one call of fetch_active_trades; val is the number of
\* trades returned, or Panic
FetchActiveTrades ==
    /\ args.kind = "page"
    /\ result = NoResult
    /\ \E o \in PageSkip(args.page, args.per_page) :
          IF o.panic
          THEN result' = [fn |-> "fetch_active_trades", val |-> Panic,
                          skip |-> o.skip, wrapped |-> o.wrapped]
          ELSE \E S \in FetchPage(active, o.skip, args.per_page) :
                  result' = [fn |-> "fetch_active_trades",
                             val |-> Cardinality(S),
                             skip |-> o.skip, wrapped |-> o.wrapped]
    /\ UNCHANGED <<procVars, args>>

\* trade.rs:84-110: one call of fetch_closed_trades
FetchClosedTrades ==
    /\ args.kind = "page"
    /\ result = NoResult
    /\ \E o \in PageSkip(args.page, args.per_page) :
          IF o.panic
          THEN result' = [fn |-> "fetch_closed_trades", val |-> Panic,
                          skip |-> o.skip, wrapped |-> o.wrapped]
          ELSE \E S \in FetchPage(closed, o.skip, args.per_page) :
                  result' = [fn |-> "fetch_closed_trades",
                             val |-> Cardinality(S),
                             skip |-> o.skip, wrapped |-> o.wrapped]
    /\ UNCHANGED <<procVars, args>>

NextPages ==
    \/ FetchActiveTrades
    \/ FetchClosedTrades

SpecPages == InitPages /\ [][NextPages]_vars

NextCalc ==
    \/ CalcNextFundingTime
    \/ CalcFundingFees
    \/ CalcClosePnl
    \/ CalcRoe

SpecCalc == InitCalc /\ [][NextCalc]_vars

----------------------------------------------------------------------------

Next ==
    \/ \E ok \in BOOLEAN : Preload(ok)
    \/ \E h \in Handlers, payload \in Payloads : AlertReceive(h, payload)
    \/ \E h \in Handlers, ok \in BOOLEAN : Lookup(h, ok)
    \/ \E h \in Handlers, ok \in BOOLEAN : CloseInsert(h, ok)
    \/ \E h \in Handlers, ok \in BOOLEAN : ActiveDelete(h, ok)
    \/ \E h \in Handlers, ok \in BOOLEAN : OpenInsert(h, ok)
    \/ \E update \in Tickers : FeedTicker(update)
    \/ FeedSkip
    \/ FeedEnd
    \/ ConsumerRecv
    \/ \E trade \in trades_to_check : ConsumerCheck(trade)
    \/ ConsumerStop

Spec == Init /\ [][Next]_vars

\* the process while no alert request arrives: the preload, the feed task
\* and the consumer task
NextFeed ==
    \/ \E ok \in BOOLEAN : Preload(ok)
    \/ \E update \in Tickers : FeedTicker(update)
    \/ FeedSkip
    \/ FeedEnd
    \/ ConsumerRecv
    \/ \E trade \in trades_to_check : ConsumerCheck(trade)
    \/ ConsumerStop

SpecFeed == InitFeed /\ [][NextFeed]_vars

\* the same tasks, started on positions whose pairs are written in several
\* conventions
SpecSymbols == InitSymbols /\ [][NextFeed]_vars

\* the same tasks, started on a store of up to three positions
SpecStartup == InitStartup /\ [][NextFeed]_vars

\* the preload, the feed task and the consumer task with the steps of the
\* active_trades mutex
NextLock ==
    \/ \E ok \in BOOLEAN : PreloadLock(ok)
    \/ PreloadUnlock
    \/ \E update \in Tickers : FeedTicker(update)
    \/ FeedSkip
    \/ FeedEnd
    \/ SnapshotLock
    \/ SnapshotUnlock
    \/ \E trade \in trades_to_check : CloseLock(trade)
    \/ CloseUnlock
    \/ ConsumerStop

SpecLock == InitFeed /\ [][NextLock]_vars

\* buy alerts without take-profit and stop-loss whose price is positive,
\* zero or negative (f64 of the JSON number, tradingview.rs:17)
PricePayloads ==
    { MkAlert("n1", "buy", "BTC-USD", pr, NoneF, NoneF, ExpectedSecret, TRUE) :
        pr \in {100, 0, -100} }

\* the request tasks on these alerts
NextPrices ==
    \/ \E ok \in BOOLEAN : Preload(ok)
    \/ \E h \in Handlers, payload \in PricePayloads : AlertReceive(h, payload)
    \/ \E h \in Handlers, ok \in BOOLEAN : Lookup(h, ok)
    \/ \E h \in Handlers, ok \in BOOLEAN : CloseInsert(h, ok)
    \/ \E h \in Handlers, ok \in BOOLEAN : ActiveDelete(h, ok)
    \/ \E h \in Handlers, ok \in BOOLEAN : OpenInsert(h, ok)

SpecPrices == Init /\ [][NextPrices]_vars

\* alerts without take-profit and stop-loss, and the tickers at a price that
\* liquidates a Long of entry 200 and at one that triggers nothing
LossPayloads == {a \in GoodAlerts : ~a.take_profit.some}
LossTickers == {u \in Tickers : u.price.some /\ u.price.val \in {134, 220}}

\* the whole process with one request task at a time and these inputs
NextLoss ==
    \/ \E ok \in BOOLEAN : Preload(ok)
    \/ \E payload \in LossPayloads : AlertReceive("h1", payload)
    \/ \E ok \in BOOLEAN : Lookup("h1", ok)
    \/ \E ok \in BOOLEAN : CloseInsert("h1", ok)
    \/ \E ok \in BOOLEAN : ActiveDelete("h1", ok)
    \/ \E ok \in BOOLEAN : OpenInsert("h1", ok)
    \/ \E update \in LossTickers : FeedTicker(update)
    \/ FeedSkip
    \/ FeedEnd
    \/ ConsumerRecv
    \/ \E trade \in trades_to_check : ConsumerCheck(trade)
    \/ ConsumerStop

SpecLoss == Init /\ [][NextLoss]_vars

\* the process while the feed delivers nothing: the preload and the request
\* tasks of the alert route
NextAlerts ==
    \/ \E ok \in BOOLEAN : Preload(ok)
    \/ \E h \in Handlers, payload \in Payloads : AlertReceive(h, payload)
    \/ \E h \in Handlers, ok \in BOOLEAN : Lookup(h, ok)
    \/ \E h \in Handlers, ok \in BOOLEAN : CloseInsert(h, ok)
    \/ \E h \in Handlers, ok \in BOOLEAN : ActiveDelete(h, ok)
    \/ \E h \in Handlers, ok \in BOOLEAN : OpenInsert(h, ok)

SpecAlerts == Init /\ [][NextAlerts]_vars

\* the same tasks, started on a position of another alert name
SpecPairs == InitPairs /\ [][NextAlerts]_vars

\* the consumer task is spawned on the tokio runtime (websocket.rs:84) and
\* its loop over the snapshot has no suspension point that can stay pending
\* (close_paper_trade awaits nothing), so an iteration that can run does run
SpecFeedFair ==
    SpecFeed /\ WF_vars(\E trade \in trades_to_check : ConsumerCheck(trade))

----------------------------------------------------------------------------
(* Properties.                                                             *)

\* the trades of a collection with the idempotency key of an alert
WithKey(trades, a) ==
    {t \in trades : t.alert_name = a.name /\ t.pair = a.pair /\ t.kind = "paper"}

LogIds(log) == {log[i].id : i \in DOMAIN log}

\* the step appends a close event made by the tick consumer
TickCloseStep == Len(closeLog') = Len(closeLog) + 1
                   /\ closeLog'[Len(closeLog')].by = "tick"

\* the consumer takes a ticker update from the channel and snapshots
RecvStep == cpc = "recv" /\ Len(chan') < Len(chan)

\* no request task is between two awaits and the consumer is between ticks
Quiescent ==
    /\ mainPc = "serving"
    /\ \A h \in Handlers : pc[h] = "idle"
    /\ cpc # "check"

\* C1: at every instant the ActiveTrades collection holds at most one open
\* position per idempotency key (alert name, pair, kind), whatever the
\* interleaving of the running execute_paper_trade calls.
C1_OnePositionPerKey ==
    \A t1, t2 \in active :
        (t1.alert_name = t2.alert_name /\ t1.pair = t2.pair /\ t1.kind = t2.kind)
            => t1 = t2

\* C2: an alert handler and the tick consumer never both close the same
\* position, and the tick consumer never closes a position that an alert
\* has already closed in the store since the consumer's snapshot.
C2_AlertAndTickExclusive ==
    \A i, j \in DOMAIN closeLog :
        /\ (closeLog[i].by = "tick" /\ closeLog[j].by = "alert")
               => closeLog[i].id # closeLog[j].id
        /\ ~closeLog[i].stale

\* C3: when the consumer takes a tick, every open position that an alert
\* opened in this run as a Long at entry 100 (liquidation price 67) on the
\* tick's symbol, and whose liquidation price the tick price has reached, is
\* in the snapshot the consumer evaluates and closes from.
C3_OpenedPositionIsScanned ==
    [][RecvStep =>
         \A t \in active :
             ( /\ t.id \notin Ids(AllSeeds)
               /\ t.direction = "long" /\ t.entry_price = 100
               /\ t.liquidation_price = 67
               /\ eq_ignore_ascii_case(t.pair, ToUpper(Head(chan).product_id))
               /\ ParsePrice(Head(chan).price) <= 67 )
             => t \in trades_to_check']_vars

\* C4: whenever the tick consumer closes a position, after the close a
\* ClosedTrade of that position with the tick price as exit price is in the
\* ClosedTrades collection and the position is no longer in ActiveTrades.
C4_TickClosePersists ==
    [][TickCloseStep =>
         LET id == closeLog'[Len(closeLog')].id
         IN  /\ \E c \in closed' : c.id = id /\ c.exit_price = price
             /\ id \notin Ids(active')]_vars

\* C5: a position leaves the in-memory map only when its ClosedTrade has
\* already been inserted and its active record already deleted.
C5_RegistryRemovedAfterPersistence ==
    [][\A t \in active_trades :
          t \notin active_trades'
              => (t.id \in Ids(closed) /\ t.id \notin Ids(active))]_vars

\* C6: no position is closed a second time (by a tick or by an alert), and
\* the snapshot the consumer takes for a tick holds no position that was
\* closed before.
C6_ClosedAtMostOnce ==
    [][ /\ Len(closeLog') > Len(closeLog)
            => closeLog'[Len(closeLog')].id \notin LogIds(closeLog)
        /\ RecvStep
            => \A t \in trades_to_check' : t.id \notin LogIds(closeLog) ]_vars

\* C7: whenever no open or close transition is in flight, the ids of the
\* in-memory map are the ids of the ActiveTrades collection.
C7_RegistryMirrorsStore ==
    Quiescent => Ids(active_trades) = Ids(active)

\* C8: when a call that found an opposite-direction position returns its
\* 200 after closing and reopening, the new position has the alert's mapped
\* direction and the alert price as entry price, a ClosedTrade of the old
\* position with the alert price as exit price is stored, and the new
\* position is the only one with the alert's key in ActiveTrades and in the
\* in-memory map.
C8_OppositeAlertReplaces ==
    [][\A h \in Handlers :
          (pc[h] = "reopen_insert" /\ pc'[h] = "idle" /\ resp'.status = 200)
              => /\ new_trade[h].direction = DirectionOf(alert[h].signal)
                 /\ new_trade[h].entry_price = alert[h].price
                 /\ \E c \in closed' : /\ c.id = existing_trade[h].id
                                       /\ c.exit_price = alert[h].price
                 /\ WithKey(active', alert[h]) = {new_trade[h]}
                 /\ WithKey(active_trades', alert[h]) = {new_trade[h]}]_vars

\* C9: when the lookup of a call completes while ActiveTrades holds a
\* position with the alert's key and the alert's mapped direction, the call
\* returns 200 "Ignoring alert" and leaves ActiveTrades, ClosedTrades and the
\* in-memory map unchanged.
C9_SameDirectionIgnored ==
    [][\A h \in Handlers :
          ( /\ pc[h] = "lookup" /\ pc'[h] # "lookup"
            /\ \E t \in WithKey(active, alert[h]) :
                   t.direction = DirectionOf(alert[h].signal) )
              => /\ pc'[h] = "idle"
                 /\ resp' = [task |-> h, status |-> 200,
                             message |-> "Ignoring alert"]
                 /\ active' = active /\ closed' = closed
                 /\ active_trades' = active_trades]_vars

\* the trigger rule, as the disjunction of its conditions
TriggerRule(t, p) ==
    IF t.direction = "long"
    THEN \/ t.stop_loss.some /\ p <= t.stop_loss.val
         \/ t.take_profit.some /\ p >= t.take_profit.val
         \/ p <= t.liquidation_price
    ELSE \/ t.stop_loss.some /\ p >= t.stop_loss.val
         \/ t.take_profit.some /\ p <= t.take_profit.val
         \/ p >= t.liquidation_price

LiquidationHit(t, p) ==
    IF t.direction = "long" THEN p <= t.liquidation_price
                            ELSE p >= t.liquidation_price
StopLossHit(t, p) ==
    /\ t.stop_loss.some
    /\ IF t.direction = "long" THEN p <= t.stop_loss.val
                               ELSE p >= t.stop_loss.val
TakeProfitHit(t, p) ==
    /\ t.take_profit.some
    /\ IF t.direction = "long" THEN p >= t.take_profit.val
                               ELSE p <= t.take_profit.val

C12_EveryTriggeredClosed ==
    /\ [][(cpc = "check" /\ cpc' # "check") =>
            \A t \in active_trades' :
                eq_ignore_ascii_case(t.pair, product_id)
                    => ~TriggerRule(t, price)]_vars
    /\ (cpc = "check") ~> (cpc = "recv")

\* C12 witness: the only tick read so far has closed two positions
C12_Witness ==
    /\ nMsgs = 1
    /\ cpc = "recv"
    /\ Len(closeLog) = 2
    /\ closeLog[1].by = "tick" /\ closeLog[2].by = "tick"
    /\ closeLog[1].id # closeLog[2].id

\* C13: when a call returns from the insert of its new position (in the
\* direct-open branch or after a close) and the insert has failed, the call
\* answers 500 "Failed to open new trade" and the new position is neither
\* in ActiveTrades nor in the in-memory map; a call answers 500 there only
\* when the insert has failed.
C13_FailedOpenLeavesNothing ==
    [][\A h \in Handlers :
          (pc[h] \in {"open_insert", "reopen_insert"} /\ pc'[h] = "idle")
              => /\ new_trade[h] \notin active'
                     => /\ resp' = [task |-> h, status |-> 500,
                                    message |-> "Failed to open new trade"]
                        /\ new_trade[h].id \notin Ids(active')
                        /\ new_trade[h].id \notin Ids(active_trades')
                        /\ active' = active
                 /\ resp'.status = 500 => new_trade[h] \notin active']_vars

\* C13 witness: the insert of the reopen step has failed: the old position
\* is closed and deleted, the call has answered 500 and no position is open
C13_Witness ==
    /\ resp.status = 500
    /\ resp.message = "Failed to open new trade"
    /\ closed # {}
    /\ active = {}
    /\ \A h \in Handlers : pc[h] = "idle"

\* a close of the position is in flight in a request task
InClose(t) ==
    \E h \in Handlers : /\ pc[h] \in {"close_insert", "active_delete"}
                         /\ existing_trade[h].id = t.id

\* C14: a position of ActiveTrades on which no close is in flight stays
\* closable: for every opposite-direction alert with its key, the insert of
\* the ClosedTrade that a close attempt builds succeeds on a store that
\* does not fail and rejects a second document with the same _id.
C14_FailedCloseStaysClosable ==
    \A t \in active :
        ~InClose(t) =>
            \A a \in GoodAlerts :
                (WithKey({t}, a) # {} /\ DirectionOf(a.signal) # t.direction)
                    => InsertOk(closed, NewClosedTrade(t, a, Now), TRUE)

\* C15: nothing but the preload happens before the process serves, and when
\* the startup fetch has returned the stored positions (its failure is the
\* case of C16), the in-memory map holds every position of ActiveTrades by
\* the time the process starts the consumer and the alert route, for stores
\* of up to three positions.
C15_StartupLoadsAll ==
    [][ /\ mainPc = "preload" => mainPc' = "serving"
        /\ ( /\ mainPc = "preload" /\ mainPc' = "serving"
             /\ (active = {} \/ active_trades' # {}) )
               => active \subseteq active_trades' ]_vars

\* C16: the process does not start the consumer and the alert route with an
\* empty in-memory map while ActiveTrades holds positions, which is the state
\* a failed startup fetch leaves.
C16_FailedLoadAborts ==
    [][(mainPc = "preload" /\ mainPc' = "serving" /\ active_trades' = {})
           => active = {}]_vars

\* C17: the end of the feed task changes nothing but the feed task: the
\* process keeps serving, ActiveTrades, ClosedTrades, the in-memory map, the
\* channel, the consumer and the request tasks are as before; afterwards
\* the consumer has not stopped while a ticker update is queued and can take
\* its next step, a new alert is accepted and every request task in
\* progress can complete its store call.
C17_FeedLossIsLocal ==
    /\ [][(feedPc = "reading" /\ feedPc' = "ended")
             => UNCHANGED <<mainPc, active, closed, active_trades, lock, chan, cpc,
                            trades_to_check, pc>>]_vars
    /\ [](feedPc = "ended" =>
             /\ mainPc = "serving"
             /\ chan # <<>> => cpc # "stopped"
             /\ (chan # <<>> /\ cpc = "recv") => ENABLED ConsumerRecv
             /\ cpc = "check"
                    => ENABLED (\E trade \in trades_to_check : ConsumerCheck(trade))
             /\ (nAlerts < MaxAlerts /\ pc["h1"] = "idle")
                    => ENABLED (\E payload \in Payloads : AlertReceive("h1", payload))
             /\ \A h \in Handlers :
                    /\ pc[h] = "lookup" => ENABLED Lookup(h, TRUE)
                    /\ pc[h] = "close_insert" => ENABLED CloseInsert(h, TRUE)
                    /\ pc[h] = "active_delete" => ENABLED ActiveDelete(h, TRUE)
                    /\ pc[h] \in {"open_insert", "reopen_insert"}
                           => ENABLED OpenInsert(h, TRUE))

\* C17 witness: the feed task has ended while a ticker update is queued, the
\* map holds a position and a request is in progress
C17_Witness ==
    /\ feedPc = "ended"
    /\ chan # <<>>
    /\ cpc = "recv"
    /\ active_trades # {}
    /\ pc["h1"] = "lookup"

\* C18: a ticker update without a parseable price is evaluated against no
\* position; every tick the consumer evaluates, and every tick it closes a
\* position on, has a positive price; and the feed task keeps reading after
\* a message it passes over.
C18_NoTickWithoutPrice ==
    [][ /\ (RecvStep /\ ~Head(chan).price.some)
              => (trades_to_check' = {} /\ cpc' = "recv")
        /\ cpc' = "check" => price' > 0
        /\ TickCloseStep => price > 0
        /\ (nMsgs' = nMsgs + 1 /\ chan' = chan) => feedPc' = "reading" ]_vars

Instrument(s) ==
    CASE ToUpper(s) \in {"BTC-USD", "BTCUSD"} -> "BTCUSD"
      [] ToUpper(s) \in {"ETH-USD", "ETHUSD"} -> "ETHUSD"
      [] OTHER -> ToUpper(s)

\* C21: symbols are compared up to casing and separator: the snapshot the
\* consumer takes for a ticker update holds every position of the map on
\* the instrument of the update, and no position on another instrument.
C21_TickMatchesInstrument ==
    [][ RecvStep =>
          trades_to_check' =
            { t \in active_trades :
                Instrument(t.pair) = Instrument(Head(chan).product_id) } ]_vars

\* the configured default take-profit / stop-loss of a position: the
\* percentage applied to the entry price, on the side of the direction
DefaultTakeProfit(entry_price, direction) ==
    IF direction = "long"
    THEN (entry_price * (100 + DEFAULT_TAKE_PROFIT_PERCENTAGE)) \div 100
    ELSE (entry_price * (100 - DEFAULT_TAKE_PROFIT_PERCENTAGE)) \div 100
DefaultStopLoss(entry_price, direction) ==
    IF direction = "long"
    THEN (entry_price * (100 - DEFAULT_STOP_LOSS_PERCENTAGE)) \div 100
    ELSE (entry_price * (100 + DEFAULT_STOP_LOSS_PERCENTAGE)) \div 100

\* C22: a position that an alert opens, directly or after the close of the
\* opposite position, carries the take-profit and stop-loss of the alert
\* when the alert has them and the configured defaults when it has not.
C22_DefaultTakeProfitStopLoss ==
    [][\A h \in Handlers :
          (pc[h] \in {"open_insert", "reopen_insert"} /\ pc'[h] = "idle")
              => \A t \in active' \ active :
                    /\ t.take_profit =
                         IF alert[h].take_profit.some
                         THEN alert[h].take_profit
                         ELSE SomeF(DefaultTakeProfit(t.entry_price, t.direction))
                    /\ t.stop_loss =
                         IF alert[h].stop_loss.some
                         THEN alert[h].stop_loss
                         ELSE SomeF(DefaultStopLoss(t.entry_price, t.direction))]_vars

LiquidationNumerator(t) ==
    IF t.direction = "long"
    THEN t.entry_price * (100 * LeverageValue(t.leverage) - 100 + MAINTENANCE_MARGIN)
    ELSE t.entry_price * (100 * LeverageValue(t.leverage) + 100 - MAINTENANCE_MARGIN)

\* C30: the liquidation price of a position that is opened is the one of
\* the formula (in whole price units); a position of ActiveTrades never
\* changes; and the ClosedTrade that a close inserts has the id, pair,
\* direction, kind, quantity, entry price, leverage, liquidation price and
\* open timestamp of the position it closes, a position of ActiveTrades
\* until a close deletes it, and the price of the closing alert as its exit
\* price.
C30_LiquidationPriceFrozen ==
    [][ /\ \A t \in active' \ active :
              /\ t.liquidation_price * 100 * LeverageValue(t.leverage)
                     <= LiquidationNumerator(t)
              /\ LiquidationNumerator(t)
                     < (t.liquidation_price + 1) * 100 * LeverageValue(t.leverage)
              /\ t.id \notin Ids(active)
        /\ \A h \in Handlers :
              (pc[h] = "lookup" /\ pc'[h] = "close_insert")
                  => existing_trade'[h] \in active
        /\ \A h \in Handlers : \A c \in closed' \ closed :
              (pc[h] = "close_insert" /\ pc'[h] = "active_delete") =>
                LET p == existing_trade[h]
                IN  /\ c.id = p.id
                    /\ c.pair = p.pair
                    /\ c.direction = p.direction
                    /\ c.kind = p.kind
                    /\ c.quantity = p.quantity
                    /\ c.entry_price = p.entry_price
                    /\ c.leverage = p.leverage
                    /\ c.liquidation_price = p.liquidation_price
                    /\ c.open_timestamp = p.open_timestamp
                    /\ c.exit_price = alert[h].price
                    /\ (p \in active \/ p.id \in Ids(closed)) ]_vars

\* C30 witness: the Long opened at 200 has been closed by an alert at 100:
\* its ClosedTrade has the liquidation price 134 computed at its open
C30_Witness ==
    \E c \in closed :
        /\ c.direction = "long"
        /\ c.entry_price = 200
        /\ c.exit_price = 100
        /\ c.liquidation_price = 134
        /\ c.id \notin Ids(active)

\* C31: a position that is opened has an entry price above 0 and the
\* quantity DEFAULT_NOTIONAL_VALUE / entry price rounded to hundredths,
\* which is above 0 and finite; and a call for an alert whose price is 0 or
\* below opens no position.
C31_QuantityPositiveFinite ==
    [][ /\ \A t \in active' \ active :
              /\ t.entry_price > 0
              /\ t.quantity = RoundDiv(DEFAULT_NOTIONAL_VALUE * 100, t.entry_price)
              /\ t.quantity > 0
              /\ t.quantity < Infinity
        /\ \A h \in Handlers :
              (pc[h] # "idle" /\ pc'[h] # pc[h] /\ alert[h].price <= 0)
                  => active' \ active = {} ]_vars

\* C32: a lookup that fails is not taken for "no existing position": a
\* call goes on from the lookup to the insert of a new position only when
\* the lookup has returned Ok(None), that is when ActiveTrades holds no
\* position of the alert's key at the lookup.
C32_LookupErrorIsReported ==
    [][\A h \in Handlers :
          (pc[h] = "lookup" /\ pc'[h] = "open_insert")
              => fetch_active_trade_by_apk(alert[h].name, alert[h].pair,
                                           "paper") = {}]_vars

\* C33: the step that receives an alert changes neither ActiveTrades nor
\* ClosedTrades nor the in-memory map; the call goes on to a store call
\* only with an alert that has deserialized and carries the expected
\* secret; and otherwise it has returned 422 or 401 with no store call
\* issued.
C33_RejectedAlertNoEffect ==
    [][ nAlerts' = nAlerts + 1 =>
          /\ active' = active
          /\ closed' = closed
          /\ active_trades' = active_trades
          /\ \A h \in Handlers :
                pc'[h] # pc[h]
                    => /\ pc'[h] = "lookup"
                       /\ alert'[h].wellformed
                       /\ alert'[h].secret = ExpectedSecret
          /\ pc' = pc
                => /\ resp'.status \in {401, 422}
                   /\ resp'.status = 401
                         => resp'.message = "Invalid secret provided"
                   /\ resp'.status = 422
                         => resp'.message = "Failed to deserialize payload"
                   /\ \A h \in Handlers : alert'[h] = alert[h] ]_vars

\* C33 witness: with a position open, two alerts have been received and the
\* last one has been answered 401; no call is in progress
C33_Witness ==
    /\ nAlerts = 2
    /\ resp.status = 401
    /\ active # {}
    /\ active_trades # {}
    /\ \A h \in Handlers : pc[h] = "idle"

\* C34: whenever no execute_paper_trade call is in progress, no id is in
\* both ActiveTrades and ClosedTrades; and every ClosedTrade that is
\* inserted has the id of a position of ActiveTrades.
C34_ActiveClosedDisjoint ==
    /\ []((\A h \in Handlers : pc[h] = "idle")
            => Ids(active) \cap Ids(closed) = {})
    /\ [][\A c \in closed' \ closed : c.id \in Ids(active)]_vars

----------------------------------------------------------------------------
(* The calculators.                                                        *)

\* C23: calc_final_funding_fees returns 0 for a close at or before the open
\* and, for a fixed open and a fixed positive notional, returns for no
\* earlier close more than for a later one.
C23_FundingFeesMonotone ==
    (result.fn = "calc_final_funding_fees") =>
        /\ args.close_timestamp <= args.open_timestamp => result.val = 0
        /\ \A c \in 0..args.close_timestamp :
              calc_final_funding_fees(args.open_timestamp, c, args.qsum)
                  <= result.val

\* C23 witness: a position held over more than one funding time has been
\* charged more than a position of the same open held over one
C23_Witness ==
    /\ result.fn = "calc_final_funding_fees"
    /\ args.open_timestamp + 16 < args.close_timestamp
    /\ result.val > calc_final_funding_fees(args.open_timestamp,
                         args.open_timestamp + 8, args.qsum)
    /\ calc_final_funding_fees(args.open_timestamp, args.open_timestamp + 8,
                               args.qsum) > 0

\* C24: a close at the entry price after no time at all yields a pnl of
\* minus the execution fee, twice quantity * entry price * 0.05 / 100 (in
\* the unit of the model quantity * entry price / 10 each), Long or Short.
C24_RoundTripPnl ==
    ( /\ result.fn = "calc_pnl"
      /\ args.exit_price = args.entry_price
      /\ args.close_timestamp = args.open_timestamp )
        => result.val = -(2 * ((args.quantity * args.entry_price) \div 10))

\* C24 witness: a Short has been closed at its entry price at the hour of
\* its open, at a loss
C24_Witness ==
    /\ result.fn = "calc_pnl"
    /\ args.direction = "short"
    /\ args.exit_price = args.entry_price
    /\ args.close_timestamp = args.open_timestamp
    /\ result.val < 0

\* C27: calc_roe is linear in the leverage: for the same pnl, entry price
\* and quantity, k times the leverage gives k times the result.
C27_RoeLinearInLeverage ==
    (result.fn = "calc_roe") =>
        \A k \in 1..4 :
            calc_roe(args.pnl, args.entry_price, args.quantity,
                     k * LeverageValue(args.leverage)) = k * result.val

\* C27 witness: calc_roe has returned a loss at leverage 5
C27_Witness ==
    /\ result.fn = "calc_roe"
    /\ args.leverage = "5x"
    /\ result.val < 0

\* the funding instants t with open < t <= close
FundingInstants(open, close) ==
    {t \in (open + 1)..close : t % 24 \in {0, 8, 16}}

\* C28: for a close after the open, calc_final_funding_fees charges
\* average notional * 0.01 / 100 (qsum / 100 in the unit of the model) once
\* for every funding instant t with open < t <= close and nothing else; and
\* get_next_funding_time returns the earliest funding instant after its
\* timestamp.
C28_OneChargePerFundingInstant ==
    /\ ( /\ result.fn = "calc_final_funding_fees"
         /\ args.close_timestamp > args.open_timestamp )
           => result.val =
                Cardinality(FundingInstants(args.open_timestamp,
                                            args.close_timestamp))
                  * (args.qsum \div 100)
    /\ (result.fn = "get_next_funding_time")
           => /\ result.val > args.open_timestamp
              /\ result.val % 24 \in {0, 8, 16}
              /\ FundingInstants(args.open_timestamp, result.val - 1) = {}

\* C28 witness: a position opened exactly at a funding instant, in the last
\* funding window of a day, and closed after the first instants of the next
\* day has been charged
C28_Witness ==
    /\ result.fn = "calc_final_funding_fees"
    /\ args.open_timestamp = 16
    /\ args.close_timestamp > 32
    /\ result.val > 0

\* the number of iterations of the accrual loop, each of which adds
\* qsum / 100
FundingIterations == result.val \div (args.qsum \div 100)

\* C29: the accrual loop ends after at most (close - open) / 8 + 1
\* iterations when the close is after the open and is not entered
\* otherwise, and get_next_funding_time does not panic.
C29_FundingLoopBounded ==
    /\ (result.fn = "calc_final_funding_fees")
           => IF args.close_timestamp > args.open_timestamp
              THEN 8 * (FundingIterations - 1)
                       <= args.close_timestamp - args.open_timestamp
              ELSE FundingIterations = 0
    /\ (result.fn = "get_next_funding_time") => result.val # Panic

\* C29 witness: the loop has run the greatest number of iterations that a
\* duration of whole hours allows, more than twice
C29_Witness ==
    /\ result.fn = "calc_final_funding_fees"
    /\ FundingIterations > 2
    /\ 8 * (FundingIterations - 1)
           = args.close_timestamp - args.open_timestamp - 1

\* C35: a call of fetch_active_trades or fetch_closed_trades returns at
\* most MAX_PER_PAGE trades, whatever the per_page asked for, and computes
\* skip = (page - 1) * min(per_page, MAX_PER_PAGE) for every page, page 0
\* included, without leaving the range of the unsigned type: it neither
\* panics nor wraps.
C35_PaginationInRange ==
    (result.fn \in {"fetch_active_trades", "fetch_closed_trades"}) =>
        /\ result.val # Panic
        /\ ~result.wrapped
        /\ result.val <= MAX_PER_PAGE
        /\ result.skip = (args.page - 1) * Min(args.per_page, MAX_PER_PAGE)

====
